---- MODULE Spec2Model ----
(***************************************************************************)
(* tmx2map: the pass that stamps 3D prefabs onto the cells of a 2D tilemap *)
(* and places the tilemap's objects (src/tmx2map/tmx2map.py, lines 192 to  *)
(* 347).  The state is the script's module-level variables; one action per *)
(* step of the script: seeding the worldspawn entity, one iteration of the *)
(* tile loop, one iteration of the object loop, the step from one layer to *)
(* the next, and the final save.  An uncaught Python exception ends the    *)
(* run: pc = "crashed" and error names the exception and its line.         *)
(*                                                                         *)
(* Numbers.  The script computes with Python floats.  Every input below is *)
(* an integer, every tile size is even and every 3D tile size is a         *)
(* multiple of the 2D one, so each division of the script is exact and the *)
(* values are modelled as integers.  Properties that the script keeps as   *)
(* text ("origin", "mangle") are modelled by the numbers the text stands   *)
(* for; the script parses them with float() and writes them with str().    *)
(***************************************************************************)
EXTENDS Integers, Sequences, FiniteSets, TLC

VARIABLES
    tilemap,          \* the loaded 2D tilemap (input)
    tile_size_3d,     \* tile_mapping["tilesize"] (input)
    tiles,            \* the prefab cache: gid -> prefab (input)
    pc,               \* "create", "layers", "done" or "crashed"
    error,            \* the uncaught exception, "" while there is none
    worldspawn,       \* the accumulator entity
    entities,         \* the output list
    missing_gids,     \* gids already reported
    warnings,         \* the gids of the "Missing tile mapping" lines printed
    tiles_processed,
    brush_count,
    layer_i,          \* position of `for layer in tilemap.layers`, from 1
    index,            \* position inside the layer, from 0
    mat,              \* the placement matrix of the last placed cell
    flip_face,        \* the parity flag of the last placed cell
    out_file          \* what m.dumps(entities) is given

vars == <<tilemap, tile_size_3d, tiles, pc, error, worldspawn, entities, missing_gids,
          warnings, tiles_processed, brush_count, layer_i, index, mat, flip_face, out_file>>

(***************************************************************************)
(* Bounds of the inputs.                                                   *)
(***************************************************************************)
MaxWidth == 2
MaxHeight == 2
MaxCells == 4
MaxLayers == 2
MaxPlaced == 2
MaxObjects == 1

(***************************************************************************)
(* Sequences and 4x4 matrices (numpy.identity, numpy.dot).                 *)
(***************************************************************************)
RECURSIVE SumSeq(_)
SumSeq(s) == IF s = <<>> THEN 0 ELSE Head(s) + SumSeq(Tail(s))

RECURSIVE Flatten(_)
Flatten(ss) == IF ss = <<>> THEN <<>> ELSE Head(ss) \o Flatten(Tail(ss))

Reverse(s) == [i \in 1..Len(s) |-> s[Len(s) + 1 - i]]

MapSeq(s, Op(_)) == [i \in 1..Len(s) |-> Op(s[i])]

Identity4 ==
    << <<1, 0, 0, 0>>, <<0, 1, 0, 0>>, <<0, 0, 1, 0>>, <<0, 0, 0, 1>> >>

Dot(A, B) ==
    [i \in 1..4 |-> [j \in 1..4 |->
        A[i][1] * B[1][j] + A[i][2] * B[2][j] + A[i][3] * B[3][j] + A[i][4] * B[4][j]]]

\* tuple(numpy.dot(M, (*p, 1))[:3])
DotPoint(M, p) ==
    [i \in 1..3 |-> M[i][1] * p[1] + M[i][2] * p[2] + M[i][3] * p[3] + M[i][4]]

\* mat = numpy.identity(4); mat[:3, 3] = tx, ty, tz
Translation(tx, ty, tz) ==
    << <<1, 0, 0, tx>>, <<0, 1, 0, ty>>, <<0, 0, 1, tz>>, <<0, 0, 0, 1>> >>

(***************************************************************************)
(* mathhelper (a module of the repository that is not among the sources):  *)
(* the three mirror matrices and the two bearing conversions.  The         *)
(* horizontal mirror negates x, the vertical mirror negates y, the         *)
(* diagonal mirror exchanges x and y.  Bearings are multiples of 90        *)
(* degrees here, so the unit vectors are integral.                         *)
(***************************************************************************)
horizontal_flip ==
    << <<-1, 0, 0, 0>>, <<0, 1, 0, 0>>, <<0, 0, 1, 0>>, <<0, 0, 0, 1>> >>

vertical_flip ==
    << <<1, 0, 0, 0>>, <<0, -1, 0, 0>>, <<0, 0, 1, 0>>, <<0, 0, 0, 1>> >>

diagonal_flip ==
    << <<0, 1, 0, 0>>, <<1, 0, 0, 0>>, <<0, 0, 1, 0>>, <<0, 0, 0, 1>> >>

vector_from_angle(degrees) ==
    CASE degrees % 360 = 0 -> <<1, 0, 0>>
      [] degrees % 360 = 90 -> <<0, 1, 0>>
      [] degrees % 360 = 180 -> <<-1, 0, 0>>
      [] degrees % 360 = 270 -> <<0, -1, 0>>

angle_between(dest) ==
    CASE dest[1] > 0 /\ dest[2] = 0 -> 0
      [] dest[1] = 0 /\ dest[2] > 0 -> 90
      [] dest[1] < 0 /\ dest[2] = 0 -> 180
      [] dest[1] = 0 /\ dest[2] < 0 -> 270

(***************************************************************************)
(* Entities (quake.map Entity): attrs is the object's __dict__ without its *)
(* "brushes" entry, brushes the list it holds.  A brush is a list of       *)
(* planes, a plane a list of points and its texture data.                  *)
(***************************************************************************)
NoAttrs == [k \in {} |-> ""]

Merge(base, over) ==
    [k \in DOMAIN base \cup DOMAIN over |->
        IF k \in DOMAIN over THEN over[k] ELSE base[k]]

\* setattr(e, key, value)
SetAttr(e, key, value) == [e EXCEPT !.attrs = Merge(@, key :> value)]

\* hasattr(e, key)
HasAttr(e, key) == key \in DOMAIN e.attrs

\* e = m.Entity(); e.classname = 'func_unknown'; e.brushes = []
NewEntity == [attrs |-> [classname |-> "func_unknown"], brushes |-> <<>>]

\* The entry of the list `entities` that is the worldspawn object itself.
WorldRef == [alias |-> "worldspawn"]

IsWorldRef(el) == "alias" \in DOMAIN el

(***************************************************************************)
(* One iteration of the tile loop, lines 224 to 317.                       *)
(***************************************************************************)
\* x = index % width
CellX(idx, tm) == idx % tm.width

\* y = tilemap.height - (index // height)
CellY(idx, tm) == tm.height - (idx \div tm.height)

\* tilemap_offset_x = x * tile_size_3d + (tile_size_3d / 2) - (tilemap_width_3d / 2)
TilemapOffsetX(x, ts3, tm) == x * ts3 + (ts3 \div 2) - ((tm.width * ts3) \div 2)

\* tilemap_offset_y = y * tile_size_3d - (tile_size_3d / 2) - (tilemap_height_3d / 2)
TilemapOffsetY(y, ts3, tm) == y * ts3 - (ts3 \div 2) - ((tm.height * ts3) \div 2)

FlipMatrix(tile) ==
    LET a == IF tile.hflip THEN Dot(Identity4, horizontal_flip) ELSE Identity4
        b == IF tile.vflip THEN Dot(a, vertical_flip) ELSE a
    IN  IF tile.dflip THEN Dot(b, diagonal_flip) ELSE b

\* FlipFace without the diagonal flag.
FlipFaceNoDiagonal(tile) ==
    LET a == IF tile.hflip THEN ~FALSE ELSE FALSE
    IN  IF tile.vflip THEN ~a ELSE a

FlipFace(tile) ==
    LET a == IF tile.hflip THEN ~FALSE ELSE FALSE
        b == IF tile.vflip THEN ~a ELSE a
    IN  IF tile.dflip THEN ~b ELSE b

\* mat = numpy.dot(translation, flip_matrix)
TileMatrix(idx, tile, ts3, tm) ==
    Dot(Translation(TilemapOffsetX(CellX(idx, tm), ts3, tm),
                    TilemapOffsetY(CellY(idx, tm), ts3, tm), 0),
        FlipMatrix(tile))

TransformPlane(copy_plane, m, ff) ==
    LET points == MapSeq(copy_plane.points, LAMBDA p : DotPoint(m, p))
    IN  [points |-> IF ff THEN Reverse(points) ELSE points,
         texture_name |-> copy_plane.texture_name,
         offset |-> copy_plane.offset,
         rotation |-> copy_plane.rotation,
         scale |-> copy_plane.scale]

TransformBrush(copy_brush, m, ff) ==
    [planes |-> MapSeq(copy_brush.planes, LAMBDA q : TransformPlane(q, m, ff))]

\* TargetEntity without the worldspawn case.
TargetEntityAlwaysNew(entity, ws) == NewEntity

\* e = worldspawn if entity.classname == 'worldspawn' else a new entity
TargetEntity(entity, ws) ==
    IF entity.attrs.classname = "worldspawn" THEN ws ELSE NewEntity

\* for key in entity.__dict__.keys(): if key != "brushes": setattr(e, key, ...)
CopyProperties(e, entity) == [e EXCEPT !.attrs = Merge(@, entity.attrs)]

TransformOrigin(e, m) ==
    IF HasAttr(e, "origin") THEN SetAttr(e, "origin", DotPoint(m, e.attrs.origin)) ELSE e

DefaultAngle(e) == IF ~HasAttr(e, "angle") THEN SetAttr(e, "angle", 0) ELSE e

Bearing(degrees, fm) == angle_between(DotPoint(fm, vector_from_angle(degrees)))

\* TransformDirection with `if` for the `elif` of line 286.
TransformDirectionBoth(e, fm) ==
    LET a == IF HasAttr(e, "mangle")
             THEN SetAttr(e, "mangle", <<e.attrs.mangle[1], Bearing(e.attrs.mangle[2], fm),
                                         e.attrs.mangle[3]>>)
             ELSE e
    IN  IF a.attrs.angle >= 0 THEN SetAttr(a, "angle", Bearing(a.attrs.angle, fm)) ELSE a

TransformDirection(e, fm) ==
    IF HasAttr(e, "mangle")
    THEN SetAttr(e, "mangle", <<e.attrs.mangle[1], Bearing(e.attrs.mangle[2], fm),
                                e.attrs.mangle[3]>>)
    ELSE IF e.attrs.angle >= 0
         THEN SetAttr(e, "angle", Bearing(e.attrs.angle, fm))
         ELSE e

\* AppendEntity inserting right after the first entry.
AppendEntityInFront(ents, e) == <<ents[1], e>> \o Tail(ents)

\* entities.append(e)
AppendEntity(ents, e) == Append(ents, e)

\* The body of `for entity in prefab`.  st holds worldspawn, entities, brush_count.
PlaceEntity(entity, st, m, fm, ff) ==
    LET target == TargetEntity(entity, st.worldspawn)
        isWorldspawnObject == entity.attrs.classname = "worldspawn"
        copied == CopyProperties(target, entity)
        directed == IF copied.attrs.classname # "worldspawn"
                    THEN TransformDirection(DefaultAngle(TransformOrigin(copied, m)), fm)
                    ELSE copied
        e == [directed EXCEPT
                 !.brushes = @ \o MapSeq(entity.brushes, LAMBDA b : TransformBrush(b, m, ff))]
    IN  [worldspawn |-> IF isWorldspawnObject THEN e ELSE st.worldspawn,
         entities |-> IF e.attrs.classname # "worldspawn"
                      THEN AppendEntity(st.entities, e) ELSE st.entities,
         brush_count |-> st.brush_count + Len(entity.brushes)]

RECURSIVE PlacePrefab(_, _, _, _, _)
PlacePrefab(prefab, st, m, fm, ff) ==
    IF prefab = <<>> THEN st
    ELSE PlacePrefab(Tail(prefab), PlaceEntity(Head(prefab), st, m, fm, ff), m, fm, ff)

(***************************************************************************)
(* One iteration of the object loop, lines 321 to 338.                     *)
(***************************************************************************)
\* for prop in obj.properties: Z goes to z, every other one onto the entity
RECURSIVE ReadProperties(_, _)
ReadProperties(props, acc) ==
    IF props = <<>> THEN acc
    ELSE LET prop == Head(props)
         IN  ReadProperties(Tail(props),
                 IF prop.name = "Z"
                 THEN [acc EXCEPT !.z = prop.value]
                 ELSE [acc EXCEPT !.e = SetAttr(@, prop.name, prop.value)])

\* ObjectOriginY without the inversion of the y axis.
ObjectOriginYNotInverted(obj, ts3, tm) ==
    obj.y * (ts3 \div tm.tilewidth) - ((tm.height * ts3) \div 2)

\* ex = (obj.x * scale) - (tilemap_width_3d / 2)
ObjectOriginX(obj, ts3, tm) ==
    obj.x * (ts3 \div tm.tilewidth) - ((tm.width * ts3) \div 2)

\* ey = (tilemap.height * tile_size_3d) - obj.y * scale - (tilemap_height_3d / 2)
ObjectOriginY(obj, ts3, tm) ==
    (tm.height * ts3) - obj.y * (ts3 \div tm.tilewidth) - ((tm.height * ts3) \div 2)

PlaceObject(obj, ts3, tm) ==
    LET read == ReadProperties(obj.properties,
                               [e |-> [attrs |-> NoAttrs, brushes |-> <<>>], z |-> 0])
        origin == <<ObjectOriginX(obj, ts3, tm), ObjectOriginY(obj, ts3, tm), read.z>>
    IN  SetAttr(SetAttr(read.e, "origin", origin), "classname", obj.name)

(***************************************************************************)
(* Inputs: prefab templates (the parsed .map files of the 3D tiles).       *)
(***************************************************************************)
Plane(points, texture_name) ==
    [points |-> points, texture_name |-> texture_name,
     offset |-> <<0, 0>>, rotation |-> 0, scale |-> <<1, 1>>]

BrushFloor ==
    [planes |-> << Plane(<< <<-32, -32, 0>>, <<-32, 32, 0>>, <<32, 32, 0>> >>, "floor") >>]

BrushWall ==
    [planes |-> << Plane(<< <<-32, -32, 0>>, <<-32, -32, 64>>, <<-32, 32, 64>> >>, "wall"),
                   Plane(<< <<-16, -32, 0>>, <<-16, 32, 0>>, <<-16, 32, 64>>,
                            <<-16, -32, 64>> >>, "wall") >>]

BrushDoor ==
    [planes |-> << Plane(<< <<0, -8, 0>>, <<16, -8, 0>>, <<16, 8, 32>> >>, "door") >>]

World2 == [attrs |-> [classname |-> "worldspawn", wad |-> "base.wad"],
           brushes |-> <<BrushFloor>>]

World3 == [attrs |-> [classname |-> "worldspawn", wad |-> "extra.wad", message |-> "tile"],
           brushes |-> <<BrushFloor, BrushWall>>]

Light == [attrs |-> [classname |-> "light", origin |-> <<8, 16, 24>>], brushes |-> <<>>]

Door == [attrs |-> [classname |-> "func_door", angle |-> 90], brushes |-> <<BrushDoor>>]

Monster == [attrs |-> [classname |-> "monster_army", origin |-> <<0, 16, 24>>, angle |-> 0],
            brushes |-> <<>>]

Lift == [attrs |-> [classname |-> "func_plat", angle |-> -1], brushes |-> <<BrushDoor>>]

Hatch == [attrs |-> [classname |-> "func_button", angle |-> -2], brushes |-> <<>>]

Spot == [attrs |-> [classname |-> "light_spot", origin |-> <<8, 0, 48>>,
                    mangle |-> <<10, 90, 20>>],
         brushes |-> <<>>]

Camera == [attrs |-> [classname |-> "info_intermission", mangle |-> <<30, 180, 0>>,
                      angle |-> 270],
           brushes |-> <<>>]

Turret == [attrs |-> [classname |-> "trap_shooter", mangle |-> <<0, 0, 5>>, angle |-> -1],
           brushes |-> <<BrushDoor>>]

DetailTemplates == {Light, Door, Monster, Lift, Hatch, Spot, Camera, Turret}

(***************************************************************************)
(* Inputs: the prefab cache `tiles` as the loading loop leaves it (lines   *)
(* 146 to 185): a dictionary from gid to prefab.  A tile whose file is     *)
(* missing has no entry; an empty .map file gives an empty prefab.         *)
(***************************************************************************)
LayoutCaches ==
    { (2 :> <<World2>>) @@ (3 :> <<World3, Monster>>),
      (2 :> <<World2, Light>>) }

FlipCaches ==
    { (2 :> <<World2, Door>>) @@ (3 :> <<World3, d>>) : d \in DetailTemplates }
    \cup { (2 :> <<World2>>) @@ (3 :> <<Spot, World3, Lift>>) }

SeedCaches ==
    { (3 :> <<World3>>),
      (2 :> <<>>) @@ (3 :> <<World3>>),
      (2 :> <<Light, World2>>) @@ (3 :> <<World3>>),
      (2 :> <<World2>>),
      (2 :> <<World2>>) @@ (3 :> <<>>),
      (2 :> <<World2>>) @@ (3 :> <<Monster>>) }

(***************************************************************************)
(* Inputs: the tilemap (tmx.TileMap): width, height, tilewidth and the     *)
(* layers, a tile layer with width * height cells, an object layer with    *)
(* its objects; a layer of any other kind has neither.                     *)
(***************************************************************************)
Cell(gid, hflip, vflip, dflip) ==
    [gid |-> gid, hflip |-> hflip, vflip |-> vflip, dflip |-> dflip]

EmptyCell == Cell(0, FALSE, FALSE, FALSE)

TileLayer(cells) == [kind |-> "tile", tiles |-> cells, objects |-> <<>>]

ObjectLayer(objs) == [kind |-> "object", tiles |-> <<>>, objects |-> objs]

ImageLayer == [kind |-> "image", tiles |-> <<>>, objects |-> <<>>]

Object(name, x, y, properties) ==
    [name |-> name, x |-> x, y |-> y, properties |-> properties]

Property(name, value) == [name |-> name, value |-> value]

TileMap(w, h, tilewidth, layers) ==
    [width |-> w, height |-> h, tilewidth |-> tilewidth, layers |-> layers]

SeqsUpTo(S, n) == UNION {[1..k -> S] : k \in 0..n}

\* Layouts: every arrangement of tile and object layers over every grid, with at
\* most MaxPlaced occupied cells and objects in all; the cells are not flipped.
LayoutGrids == {g \in (1..MaxWidth) \X (1..MaxHeight) : g[1] * g[2] <= MaxCells}

LayoutGids == {3, 5}

LayoutObjects == {Object("item_health", 32, 32, <<>>)}

LayoutKinds == UNION {[1..n -> {"tile", "object"}] : n \in 1..MaxLayers}

TilePositions(kinds, n) ==
    {p \in (1..Len(kinds)) \X (1..n) : kinds[p[1]] = "tile"}

Occupancies(kinds, n) ==
    UNION {[S -> LayoutGids] :
              S \in {T \in SUBSET TilePositions(kinds, n) : Cardinality(T) <= MaxPlaced}}

LayoutLayers(kinds, n, occ, objs) ==
    [l \in 1..Len(kinds) |->
        IF kinds[l] = "tile"
        THEN TileLayer([i \in 1..n |->
                 IF <<l, i>> \in DOMAIN occ
                 THEN Cell(occ[<<l, i>>], FALSE, FALSE, FALSE) ELSE EmptyCell])
        ELSE ObjectLayer(objs[l])]

InitLayout ==
    \E g \in LayoutGrids, kinds \in LayoutKinds :
        \E occ \in Occupancies(kinds, g[1] * g[2]),
           objs \in [1..Len(kinds) -> SeqsUpTo(LayoutObjects, MaxPlaced)] :
            /\ \A l \in 1..Len(kinds) : kinds[l] = "tile" => objs[l] = <<>>
            /\ Cardinality(DOMAIN occ) + SumSeq([l \in 1..Len(kinds) |-> Len(objs[l])])
                   <= MaxPlaced
            /\ tilemap = TileMap(g[1], g[2], 32, LayoutLayers(kinds, g[1] * g[2], occ, objs))
            /\ tile_size_3d = 64
            /\ tiles \in LayoutCaches

\* Flips: one occupied cell of a 2 x 2 grid, every combination of the flags.
InitFlips ==
    \E pos \in 1..4, gid \in {2, 3}, h \in BOOLEAN, v \in BOOLEAN, d \in BOOLEAN :
        /\ tilemap = TileMap(2, 2, 32,
               << TileLayer([i \in 1..4 |-> IF i = pos THEN Cell(gid, h, v, d)
                                                        ELSE EmptyCell]) >>)
        /\ tile_size_3d = 64
        /\ tiles \in FlipCaches

\* Objects: object layers alone, with and without the property Z.
ObjectGrids == {<<4, 4>>, <<2, 1>>}

ObjectSizes == {<<32, 64>>, <<16, 32>>, <<32, 32>>}

ObjectProperties ==
    { <<>>,
      << Property("Z", 48) >>,
      << Property("spawnflags", 1) >>,
      << Property("Z", 16), Property("spawnflags", 1), Property("angle", 90) >>,
      << Property("angle", 180), Property("Z", -8) >> }

Objects ==
    { Object(name, x, y, props) :
        name \in {"info_player_start", "light"}, x \in {0, 64}, y \in {64, 96},
        props \in ObjectProperties }

InitObjects ==
    \E g \in ObjectGrids, sz \in ObjectSizes, objs \in SeqsUpTo(Objects, MaxObjects),
       lead \in {<<>>, <<ImageLayer>>} :
        /\ tilemap = TileMap(g[1], g[2], sz[1], lead \o <<ObjectLayer(objs)>>)
        /\ tile_size_3d = sz[2]
        /\ tiles = (2 :> <<World2>>)

\* Caches: what the loading loop can leave behind, on a one-cell map of three
\* tile layers, the first two with the same gid.
InitCaches ==
    \E g1 \in {0, 2, 3}, g2 \in {3, 5} :
        /\ tilemap = TileMap(1, 1, 32,
               << TileLayer(<<Cell(g1, FALSE, FALSE, FALSE)>>),
                  TileLayer(<<Cell(g1, TRUE, FALSE, FALSE)>>),
                  TileLayer(<<Cell(g2, FALSE, FALSE, FALSE)>>) >>)
        /\ tile_size_3d = 64
        /\ tiles \in SeedCaches

(***************************************************************************)
(* The state when "Creating map..." is printed (line 192): the tilemap,    *)
(* the mapping and the prefab cache are loaded.                            *)
(***************************************************************************)
Init ==
    /\ InitLayout \/ InitFlips \/ InitObjects \/ InitCaches
    /\ pc = "create"
    /\ error = ""
    /\ worldspawn = [attrs |-> NoAttrs, brushes |-> <<>>]
    /\ entities = <<>>
    /\ missing_gids = <<>>
    /\ warnings = <<>>
    /\ tiles_processed = 0
    /\ brush_count = 0
    /\ layer_i = 1
    /\ index = 0
    /\ mat = Identity4
    /\ flip_face = FALSE
    /\ out_file = <<>>

Crash(exception) ==
    /\ pc' = "crashed"
    /\ error' = exception

InSeq(x, s) == \E i \in 1..Len(s) : s[i] = x

\* tiles.get(gid) is truthy: an entry that is not the empty list
Loaded(gid) == gid \in DOMAIN tiles /\ tiles[gid] # <<>>

(***************************************************************************)
(* Lines 193 to 205: the output list and the worldspawn entity, whose wad  *)
(* is read from the first entity of the prefab of gid 2.                   *)
(***************************************************************************)
SeedWorldspawn ==
    /\ pc = "create"
    /\ IF 2 \notin DOMAIN tiles
       THEN Crash("KeyError:197") /\ UNCHANGED <<worldspawn, entities>>
       ELSE IF tiles[2] = <<>>
       THEN Crash("IndexError:197") /\ UNCHANGED <<worldspawn, entities>>
       ELSE IF ~HasAttr(tiles[2][1], "wad")
       THEN Crash("AttributeError:197") /\ UNCHANGED <<worldspawn, entities>>
       ELSE /\ worldspawn' = [attrs |-> [classname |-> "worldspawn",
                                         wad |-> tiles[2][1].attrs.wad],
                              brushes |-> <<>>]
            /\ entities' = <<WorldRef>>
            /\ pc' = "layers"
            /\ UNCHANGED error
    /\ UNCHANGED <<tilemap, tile_size_3d, tiles, missing_gids, warnings, tiles_processed,
                   brush_count, layer_i, index, mat, flip_face, out_file>>

InLayers == pc = "layers" /\ layer_i <= Len(tilemap.layers)

layer == tilemap.layers[layer_i]

\* if not tiles.get(tile.gid) and tile.gid not in missing_gids
WarnMissing(gid) == ~Loaded(gid) /\ ~InSeq(gid, missing_gids)

(***************************************************************************)
(* Lines 210 to 317: one cell of a tile layer.                             *)
(***************************************************************************)
TileStep ==
    /\ InLayers
    /\ layer.kind = "tile"
    /\ index < Len(layer.tiles)
    /\ LET tile == layer.tiles[index + 1]
       IN  IF tile.gid = 0
           THEN /\ index' = index + 1
                /\ UNCHANGED <<pc, error, worldspawn, entities, missing_gids, warnings,
                               tiles_processed, brush_count, mat, flip_face>>
           ELSE IF WarnMissing(tile.gid)
           THEN /\ warnings' = Append(warnings, tile.gid)
                /\ missing_gids' = Append(missing_gids, tile.gid)
                /\ index' = index + 1
                /\ UNCHANGED <<pc, error, worldspawn, entities, tiles_processed,
                               brush_count, mat, flip_face>>
           ELSE /\ tiles_processed' = tiles_processed + 1
                /\ mat' = TileMatrix(index, tile, tile_size_3d, tilemap)
                /\ flip_face' = FlipFace(tile)
                /\ UNCHANGED <<missing_gids, warnings>>
                /\ IF tile.gid \notin DOMAIN tiles
                   THEN /\ Crash("KeyError:252")
                        /\ UNCHANGED <<worldspawn, entities, brush_count, index>>
                   ELSE LET st == PlacePrefab(tiles[tile.gid],
                                      [worldspawn |-> worldspawn, entities |-> entities,
                                       brush_count |-> brush_count],
                                      mat', FlipMatrix(tile), flip_face')
                        IN  /\ worldspawn' = st.worldspawn
                            /\ entities' = st.entities
                            /\ brush_count' = st.brush_count
                            /\ index' = index + 1
                            /\ UNCHANGED <<pc, error>>
    /\ UNCHANGED <<tilemap, tile_size_3d, tiles, layer_i, out_file>>

(***************************************************************************)
(* Lines 321 to 338: one object of an object layer.                        *)
(***************************************************************************)
ObjectStep ==
    /\ InLayers
    /\ layer.kind = "object"
    /\ index < Len(layer.objects)
    /\ entities' = AppendEntity(entities,
                       PlaceObject(layer.objects[index + 1], tile_size_3d, tilemap))
    /\ index' = index + 1
    /\ UNCHANGED <<tilemap, tile_size_3d, tiles, pc, error, worldspawn, missing_gids,
                   warnings, tiles_processed, brush_count, layer_i, mat, flip_face,
                   out_file>>

(***************************************************************************)
(* Line 207: the layer is exhausted, or is neither a tile layer nor an     *)
(* object layer; the loop goes on to the next one.                         *)
(***************************************************************************)
NextLayer ==
    /\ InLayers
    /\ \/ layer.kind = "tile" /\ index = Len(layer.tiles)
       \/ layer.kind = "object" /\ index = Len(layer.objects)
       \/ layer.kind \notin {"tile", "object"}
    /\ layer_i' = layer_i + 1
    /\ index' = 0
    /\ UNCHANGED <<tilemap, tile_size_3d, tiles, pc, error, worldspawn, entities,
                   missing_gids, warnings, tiles_processed, brush_count, mat, flip_face,
                   out_file>>

\* The list as the serializer sees it: the first entry is the worldspawn object.
Output == [i \in 1..Len(entities) |->
              IF IsWorldRef(entities[i]) THEN worldspawn ELSE entities[i]]

(***************************************************************************)
(* Lines 344 to 347: data = m.dumps(entities), written to the map file.    *)
(***************************************************************************)
Save ==
    /\ pc = "layers"
    /\ layer_i > Len(tilemap.layers)
    /\ out_file' = Output
    /\ pc' = "done"
    /\ UNCHANGED <<tilemap, tile_size_3d, tiles, error, worldspawn, entities, missing_gids,
                   warnings, tiles_processed, brush_count, layer_i, index, mat, flip_face>>

Next == SeedWorldspawn \/ TileStep \/ ObjectStep \/ NextLayer \/ Save

Spec == Init /\ [][Next]_vars

(***************************************************************************)
(* What the inputs say, read off the tilemap and the cache alone.          *)
(***************************************************************************)
Seeded == entities # <<>>

Min(a, b) == IF a < b THEN a ELSE b

\* The cells the tile loop has finished with, in traversal order.
VisitedCells ==
    Flatten([l \in 1..Min(layer_i, Len(tilemap.layers)) |->
        IF tilemap.layers[l].kind # "tile" THEN <<>>
        ELSE IF l < layer_i THEN tilemap.layers[l].tiles
        ELSE SubSeq(tilemap.layers[l].tiles, 1, index)])

\* The objects the object loop has finished with.
VisitedObjects ==
    Flatten([l \in 1..Min(layer_i, Len(tilemap.layers)) |->
        IF tilemap.layers[l].kind # "object" THEN <<>>
        ELSE IF l < layer_i THEN tilemap.layers[l].objects
        ELSE SubSeq(tilemap.layers[l].objects, 1, index)])

AllCells ==
    Flatten([l \in 1..Len(tilemap.layers) |-> tilemap.layers[l].tiles])

IsWorld(entity) == entity.attrs.classname = "worldspawn"

WorldTemplates(prefab) == SelectSeq(prefab, IsWorld)

DetailEntities(prefab) == SelectSeq(prefab, LAMBDA t : ~IsWorld(t))

PrefabOf(cell) == IF cell.gid \in DOMAIN tiles THEN tiles[cell.gid] ELSE <<>>

WorldBrushes(cell) ==
    Flatten([k \in 1..Len(WorldTemplates(PrefabOf(cell))) |->
                WorldTemplates(PrefabOf(cell))[k].brushes])

Classnames(ents) == [i \in 1..Len(ents) |-> ents[i].attrs.classname]

Textures(brushes) == [i \in 1..Len(brushes) |-> brushes[i].planes[1].texture_name]

DetailNames(cells) ==
    Flatten([i \in 1..Len(cells) |-> Classnames(DetailEntities(PrefabOf(cells[i])))])

ObjectNames(objs) == [i \in 1..Len(objs) |-> objs[i].name]

Count(s, x) == Cardinality({i \in 1..Len(s) : s[i] = x})

Xor(a, b) == a # b

\* The cell the tile loop has just placed, if the last step placed one.
JustPlaced ==
    /\ InLayers
    /\ layer.kind = "tile"
    /\ index >= 1
    /\ Loaded(layer.tiles[index].gid)

PlacedCell == layer.tiles[index]

LastEntities(n) == SubSeq(entities, Len(entities) - n + 1, Len(entities))

LastWorldBrushes(n) ==
    SubSeq(worldspawn.brushes, Len(worldspawn.brushes) - n + 1, Len(worldspawn.brushes))

\* C1: a cell whose gid has no prefab is skipped, the second and every later
\* cell of the same gid too: no run ends at such a cell.
MissingCellSkipped ==
    ~ /\ pc = "crashed"
      /\ layer_i <= Len(tilemap.layers)
      /\ layer.kind = "tile"
      /\ index < Len(layer.tiles)
      /\ layer.tiles[index + 1].gid # 0
      /\ layer.tiles[index + 1].gid \notin DOMAIN tiles
      /\ Seeded

\* C2: at the end of a run that seeded the accumulator, every gid without a
\* prefab that some cell of some tile layer references was reported exactly
\* once, every other one not at all, and gid 0 never.
MissingGidReportedOnce ==
    (Seeded /\ pc \in {"done", "crashed"}) =>
        \A g \in {AllCells[i].gid : i \in 1..Len(AllCells)} \cup {0} :
            Count(warnings, g) = IF g # 0 /\ g \notin DOMAIN tiles THEN 1 ELSE 0

\* C3: once seeded, the accumulator keeps the classname and the wad of its
\* seeding and gains no other property, whatever is placed.
AccumulatorScalarsFixed ==
    Seeded =>
        worldspawn.attrs = [classname |-> "worldspawn", wad |-> tiles[2][1].attrs.wad]

\* C4 as stated: in the saved list the accumulator comes first, then the
\* entities of all tile layers, then the entities of all object layers.
TileEntitiesBeforeObjectEntities ==
    pc = "done" =>
        Classnames(out_file) =
            <<"worldspawn">> \o DetailNames(AllCells)
                \o ObjectNames(Flatten([l \in 1..Len(tilemap.layers) |->
                                           tilemap.layers[l].objects]))

\* C4 as amended: in the saved list the accumulator comes first, then the
\* entities of the layers in the source order of the layers: a tile layer
\* gives the non-world entities of its placed cells in row-major cell order
\* and template order, an object layer its objects in their order.
EntitiesInLayerOrder ==
    pc = "done" =>
        Classnames(out_file) =
            <<"worldspawn">> \o
                Flatten([l \in 1..Len(tilemap.layers) |->
                    IF tilemap.layers[l].kind = "tile"
                    THEN DetailNames(tilemap.layers[l].tiles)
                    ELSE ObjectNames(tilemap.layers[l].objects)])

ObjectLayerBeforeTileLayer ==
    /\ pc = "done"
    /\ \E a, b \in 1..Len(tilemap.layers) :
          /\ a < b
          /\ tilemap.layers[a].kind = "object" /\ tilemap.layers[a].objects # <<>>
          /\ tilemap.layers[b].kind = "tile" /\ DetailNames(tilemap.layers[b].tiles) # <<>>

\* C5: after any number of placements the accumulator holds the brushes of
\* the world entities of the placed prefabs, in placement order and no
\* others; the list holds one worldspawn entity; and it holds one further
\* entity per non-world template entity placed (and one per object).
AccumulatorMerge ==
    Seeded =>
        /\ Len(worldspawn.brushes) =
               SumSeq([i \in 1..Len(VisitedCells) |-> Len(WorldBrushes(VisitedCells[i]))])
        /\ Textures(worldspawn.brushes) =
               Flatten([i \in 1..Len(VisitedCells) |-> Textures(WorldBrushes(VisitedCells[i]))])
        /\ Count(Classnames(Output), "worldspawn") = 1
        /\ Len(entities) - 1 - Len(VisitedObjects) = Len(DetailNames(VisitedCells))

TwoPrefabsMerged ==
    /\ Seeded
    /\ tiles_processed >= 2
    /\ Len(worldspawn.brushes) >= 4
    /\ Len(entities) >= 3

\* The points of a template plane as the placement must produce them: moved
\* through the placement matrix, in reverse order when parity is odd.
ExpectedPoints(plane, parity) ==
    LET moved == [i \in 1..Len(plane.points) |-> DotPoint(mat, plane.points[i])]
    IN  IF parity THEN [i \in 1..Len(moved) |-> moved[Len(moved) + 1 - i]] ELSE moved

WoundAs(placed, template, parity) ==
    /\ Len(placed) = Len(template)
    /\ \A b \in 1..Len(template) :
          /\ Len(placed[b].planes) = Len(template[b].planes)
          /\ \A q \in 1..Len(template[b].planes) :
                placed[b].planes[q].points = ExpectedPoints(template[b].planes[q], parity)

\* C6: the parity flag of a placed cell is hflip XOR vflip XOR dflip, and every
\* plane the placement produced, in the accumulator and in the new entities
\* alike, has its transformed points reversed exactly when parity is true.
ParityAndWinding ==
    JustPlaced =>
        LET parity == Xor(Xor(PlacedCell.hflip, PlacedCell.vflip), PlacedCell.dflip)
            world == WorldBrushes(PlacedCell)
            details == DetailEntities(PrefabOf(PlacedCell))
            placed == LastEntities(Len(details))
        IN  /\ flip_face = parity
            /\ WoundAs(LastWorldBrushes(Len(world)), world, parity)
            /\ \A j \in 1..Len(details) :
                  WoundAs(placed[j].brushes, details[j].brushes, parity)

AllFlagsPlaced ==
    /\ JustPlaced
    /\ PlacedCell.hflip /\ PlacedCell.vflip /\ PlacedCell.dflip
    /\ WorldBrushes(PlacedCell) # <<>>
    /\ \E j \in 1..Len(DetailEntities(PrefabOf(PlacedCell))) :
          DetailEntities(PrefabOf(PlacedCell))[j].brushes # <<>>

CellCentre(idx) ==
    LET col == idx % tilemap.width
        row == idx \div tilemap.width
    IN  << ((2 * col + 1 - tilemap.width) * tile_size_3d) \div 2,
           ((2 * (tilemap.height - 1 - row) + 1 - tilemap.height) * tile_size_3d) \div 2 >>

\* C7: the translation of a placed cell is the centre of the cell of column
\* index mod width and row index div width, rows counted from the bottom, and
\* lies inside the extent of the map.
TranslationIsCellCentre ==
    JustPlaced =>
        /\ <<mat[1][4], mat[2][4]>> = CellCentre(index - 1)
        /\ 2 * mat[1][4] >= -(tilemap.width * tile_size_3d)
        /\ 2 * mat[1][4] <= tilemap.width * tile_size_3d
        /\ 2 * mat[2][4] >= -(tilemap.height * tile_size_3d)
        /\ 2 * mat[2][4] <= tilemap.height * tile_size_3d

JustPlacedObject ==
    /\ InLayers
    /\ layer.kind = "object"
    /\ index >= 1

PlacedObject == layer.objects[index]

PropertyNamed(obj, name) ==
    {obj.properties[i].value : i \in {k \in 1..Len(obj.properties) :
                                         obj.properties[k].name = name}}

\* C8: an object gives one entity: its classname the object's name, its
\* origin (x * scale - mapWidth3D / 2, gridHeight * tileSize3D - y * scale -
\* mapHeight3D / 2, Z or 0), every other property of the object as it is, no
\* property Z, no brushes.
ObjectPlacement ==
    JustPlacedObject =>
        LET obj == PlacedObject
            e == entities[Len(entities)]
            names == {obj.properties[i].name : i \in 1..Len(obj.properties)} \ {"Z"}
            z == IF PropertyNamed(obj, "Z") = {} THEN 0
                 ELSE CHOOSE v \in PropertyNamed(obj, "Z") : TRUE
        IN  /\ Len(entities) = 1 + Len(DetailNames(VisitedCells)) + Len(VisitedObjects)
            /\ e.attrs.classname = obj.name
            /\ e.attrs.origin =
                  << (2 * obj.x * tile_size_3d
                         - tilemap.width * tile_size_3d * tilemap.tilewidth)
                        \div (2 * tilemap.tilewidth),
                     (tilemap.height * tile_size_3d * tilemap.tilewidth
                         - 2 * obj.y * tile_size_3d) \div (2 * tilemap.tilewidth),
                     z >>
            /\ DOMAIN e.attrs = names \cup {"classname", "origin"}
            /\ \A n \in names : PropertyNamed(obj, n) = {e.attrs[n]}
            /\ e.brushes = <<>>

PlayerStartPlaced ==
    /\ JustPlacedObject
    /\ tilemap.tilewidth = 32 /\ tile_size_3d = 64
    /\ tilemap.width = 4 /\ tilemap.height = 4
    /\ PlacedObject = Object("info_player_start", 64, 64, <<Property("Z", 48)>>)
    /\ entities[Len(entities)].attrs =
          [classname |-> "info_player_start", origin |-> <<0, 0, 48>>]

Mirrored(b, cell) ==
    LET d == IF cell.dflip THEN 90 - b ELSE b
        v == IF cell.vflip THEN 0 - d ELSE d
        h == IF cell.hflip THEN 180 - v ELSE v
    IN  h % 360

\* C9: a placed non-world entity has at most one direction re-derived: with a
\* mangle, the mangle's bearing only (angle as it was, 0 if absent); without a
\* mangle and with an angle below 0, nothing; otherwise the angle.  A bearing
\* b becomes 90 - b under the diagonal mirror, then -b under the vertical
\* one, then 180 - b under the horizontal one.
DirectionRederivedOnce ==
    JustPlaced =>
        LET details == DetailEntities(PrefabOf(PlacedCell))
            placed == LastEntities(Len(details))
        IN  \A j \in 1..Len(details) :
               LET t == details[j].attrs
                   e == placed[j].attrs
                   angle == IF "angle" \in DOMAIN t THEN t.angle ELSE 0
               IN  IF "mangle" \in DOMAIN t
                   THEN /\ e.mangle = <<t.mangle[1], Mirrored(t.mangle[2], PlacedCell),
                                        t.mangle[3]>>
                        /\ e.angle = angle
                   ELSE /\ "mangle" \notin DOMAIN e
                        /\ e.angle = IF angle < 0 THEN angle
                                     ELSE Mirrored(angle, PlacedCell)

MirroredMangleKeepsAngle ==
    /\ JustPlaced
    /\ PlacedCell.hflip /\ ~PlacedCell.vflip /\ ~PlacedCell.dflip
    /\ \E j \in 1..Len(DetailEntities(PrefabOf(PlacedCell))) :
          LET t == DetailEntities(PrefabOf(PlacedCell))[j].attrs
              e == LastEntities(Len(DetailEntities(PrefabOf(PlacedCell))))[j].attrs
          IN  /\ "mangle" \in DOMAIN t /\ "angle" \in DOMAIN t
              /\ t.angle >= 0
              /\ e.mangle # t.mangle
              /\ e.angle = t.angle

\* C10: with the inputs loaded, the run seeds the accumulator whatever the
\* cache holds: no run ends before the accumulator is in the list.
AccumulatorAlwaysSeeded == pc = "crashed" => Seeded

====
